---- MODULE Spec2Model ----
(***************************************************************************)
(* SafeSpeakAI backend core: the keyword/heuristic toxicity analyzer       *)
(* (backend/toxicity_analyzer.py) and the rule-based text rephraser        *)
(* (backend/text_rephraser.py), as called by the Flask handlers of         *)
(* backend/app.py on the two module-level instances.                       *)
(*                                                                         *)
(* A Python str is a sequence of one-character strings.  A float is an     *)
(* exact rational [num, den] in lowest terms: on every value these         *)
(* functions produce (severities 0.5..0.9 times products of 1.2 and 1.3,   *)
(* and 2*d/n for small d, n) the comparisons the code makes (>= 0.6,       *)
(* min(., 1.0), ==) have the same outcome in IEEE doubles and in exact     *)
(* arithmetic; in particular 0.5 * 1.2 == 0.6 holds in doubles.            *)
(***************************************************************************)
EXTENDS Integers, Sequences, FiniteSets, TLC

VARIABLES
  hashSeed,           \* the process's string-hash order (decides list(set(..)) order)
  toxicity_analyzer,  \* app.toxicity_analyzer, the shared ToxicityAnalyzer instance
  text_rephraser,     \* app.text_rephraser, the shared TextRephraser instance
  text,               \* the text of the request being composed
  pieces,             \* number of pieces typed into text so far
  pc,                 \* position of the request
  kwarg,              \* keywords argument of the rephrase call
  verdict,            \* result of analyze(text)
  result,             \* result of rephrase(text, kwarg)
  result2,            \* result of rephrase(result.rephrased, kwarg)
  suggestion,         \* result of get_suggestion(text, verdict), or None
  batch,              \* the 'texts' field of a batch request
  response,           \* the response to a batch request
  calls,              \* per concurrent caller: the call it makes and where it stands
  frames              \* the local variables of the calls in progress

vars == <<hashSeed, toxicity_analyzer, text_rephraser, text, pieces, pc, kwarg,
          verdict, result, result2, suggestion, batch, response, calls, frames>>

instances == <<hashSeed, toxicity_analyzer, text_rephraser>>
single    == <<text, pieces, kwarg, verdict, result, result2, suggestion>>
batched   == <<batch, response>>
threads   == <<calls, frames>>

----------------------------------------------------------------------------
(* Characters and the str methods the code uses *)

UpperLetters == <<"A","B","C","D","E","F","G","H","I","J","K","L","M","N","O","P","Q","R","S","T","U","V","W","X","Y","Z">>
LowerLetters == <<"a","b","c","d","e","f","g","h","i","j","k","l","m","n","o","p","q","r","s","t","u","v","w","x","y","z">>

Range(s) == {s[i] : i \in 1..Len(s)}

UpperSet == {"A","B","C","D","E","F","G","H","I","J","K","L","M","N","O","P","Q","R","S","T","U","V","W","X","Y","Z"}
LowerSet == {"a","b","c","d","e","f","g","h","i","j","k","l","m","n","o","p","q","r","s","t","u","v","w","x","y","z"}
Digits == {"0","1","2","3","4","5","6","7","8","9"}
Whitespace == {" ", "\n", "\t"}

IndexOf(s, c) == CHOOSE n \in 1..Len(s) : s[n] = c

ToLower(c) == IF c \in UpperSet THEN LowerLetters[IndexOf(UpperLetters, c)] ELSE c
ToUpper(c) == IF c \in LowerSet THEN UpperLetters[IndexOf(LowerLetters, c)] ELSE c

\* str.lower()
lower(s) == [i \in 1..Len(s) |-> ToLower(s[i])]

\* str.isupper(): no lower-case letter and at least one upper-case letter
isupper(s) == /\ \A i \in 1..Len(s) : s[i] \notin LowerSet
              /\ \E i \in 1..Len(s) : s[i] \in UpperSet

\* str.capitalize(): first character upper-cased, the rest lower-cased
capitalize(s) == [i \in 1..Len(s) |-> IF i = 1 THEN ToUpper(s[i]) ELSE ToLower(s[i])]

\* "not text or not text.strip()"
IsBlank(s) == \A i \in 1..Len(s) : s[i] \in Whitespace

\* "needle in hay" on str
Contains(hay, needle) ==
  \E i \in 0..(Len(hay) - Len(needle)) : SubSeq(hay, i + 1, i + Len(needle)) = needle

\* str.count(c)
count(s, c) == Cardinality({i \in 1..Len(s) : s[i] = c})

----------------------------------------------------------------------------
(* Floats as exact rationals *)

RECURSIVE GCD(_, _)
GCD(a, b) == IF b = 0 THEN a ELSE GCD(b, a % b)

Rat(n, d) == [num |-> n \div GCD(n, d), den |-> d \div GCD(n, d)]

RMul(a, b) == Rat(a.num * b.num, a.den * b.den)
RLeq(a, b) == a.num * b.den <= b.num * a.den
RMin(a, b) == IF RLeq(a, b) THEN a ELSE b
RMax(a, b) == IF RLeq(a, b) THEN b ELSE a

Zero == Rat(0, 1)
One  == Rat(1, 1)

----------------------------------------------------------------------------
(* config.py *)

CONFIDENCE_THRESHOLD == Rat(6, 10)

----------------------------------------------------------------------------
(* ToxicityAnalyzer.__init__: the static tables *)

toxic_patterns ==
  <<
    [category |-> "hate_speech", severity |-> Rat(9, 10),
     keywords |-> <<<<"h","a","t","e">>,
                    <<"d","e","s","p","i","s","e">>,
                    <<"d","e","t","e","s","t">>,
                    <<"l","o","a","t","h","e">>>>],
    [category |-> "insults", severity |-> Rat(7, 10),
     keywords |-> <<<<"s","t","u","p","i","d">>,
                    <<"i","d","i","o","t">>,
                    <<"d","u","m","b">>,
                    <<"m","o","r","o","n">>,
                    <<"f","o","o","l">>,
                    <<"i","m","b","e","c","i","l","e">>>>],
    [category |-> "profanity", severity |-> Rat(5, 10),
     keywords |-> <<<<"d","a","m","n">>,
                    <<"h","e","l","l">>,
                    <<"c","r","a","p">>>>],
    [category |-> "aggressive", severity |-> Rat(8, 10),
     keywords |-> <<<<"s","h","u","t"," ","u","p">>,
                    <<"g","e","t"," ","l","o","s","t">>,
                    <<"g","o"," ","a","w","a","y">>>>],
    [category |-> "derogatory", severity |-> Rat(8, 10),
     keywords |-> <<<<"l","o","s","e","r">>,
                    <<"p","a","t","h","e","t","i","c">>,
                    <<"w","o","r","t","h","l","e","s","s">>,
                    <<"u","s","e","l","e","s","s">>,
                    <<"g","a","r","b","a","g","e">>,
                    <<"t","r","a","s","h">>>>],
    [category |-> "offensive", severity |-> Rat(7, 10),
     keywords |-> <<<<"d","i","s","g","u","s","t","i","n","g">>,
                    <<"u","g","l","y">>,
                    <<"f","r","e","a","k">>,
                    <<"w","e","i","r","d">>,
                    <<"c","r","e","e","p">>>>]
  >>


context_multipliers ==
  [repeated_chars |-> Rat(12, 10), all_caps |-> Rat(13, 10), multiple_exclamation |-> Rat(12, 10)]

\* the (category, keyword) pairs in the order the nested loops of analyze visit them
\* the instance ToxicityAnalyzer() builds
ToxicityAnalyzer ==
  [toxic_patterns |-> toxic_patterns, context_multipliers |-> context_multipliers]

\* every keyword and every category name, in table order
RECURSIVE KeywordsOf(_)
KeywordsOf(tbl) ==
  IF tbl = <<>> THEN <<>> ELSE Head(tbl).keywords \o KeywordsOf(Tail(tbl))

AllKeywords == KeywordsOf(toxic_patterns)
CategoryNames == [n \in 1..Len(toxic_patterns) |-> toxic_patterns[n].category]

----------------------------------------------------------------------------
(* list(set(xs)): the distinct elements of xs in the iteration order of a   *)
(* set of str, which depends on the process's string hashing and is the     *)
(* same for every call within one process.                                  *)

HashSeeds == {0, 1}

Reverse(s) == [n \in 1..Len(s) |-> s[Len(s) + 1 - n]]

HashOrder(universe, seed) == IF seed = 0 THEN universe ELSE Reverse(universe)

\* variant: the list is returned as collected, repeats included
ListWithRepeats(xs, universe, seed) == xs

ListOfSet(xs, universe, seed) ==
  SelectSeq(HashOrder(universe, seed), LAMBDA e : e \in Range(xs))

----------------------------------------------------------------------------
(* ToxicityAnalyzer *)

\* the locals of analyze before the loops
InitialLocals == [found_keywords |-> <<>>, categories |-> <<>>, max_severity |-> Zero]

\* the inner loop of analyze over the keywords of one table item
ScanItem(loc, item, text_lower) ==
  LET hits == SelectSeq(item.keywords, LAMBDA keyword : Contains(text_lower, keyword))
  IN  [found_keywords |-> loc.found_keywords \o hits,
       categories     |-> loc.categories \o [n \in 1..Len(hits) |-> item.category],
       max_severity   |-> IF hits = <<>> THEN loc.max_severity
                          ELSE RMax(loc.max_severity, item.severity)]

\* the outer loop of analyze over self.toxic_patterns.items(), items k..last
RECURSIVE ScanPatterns(_, _, _, _, _)
ScanPatterns(self, text_lower, k, last, loc) ==
  IF k > last THEN loc
  ELSE ScanPatterns(self, text_lower, k + 1, last,
                    ScanItem(loc, self.toxic_patterns[k], text_lower))

\* re.search(r'(.)\1{2,}', text): '.' does not match a newline
HasRepeatedChars(s) ==
  \E i \in 1..(Len(s) - 2) : s[i] # "\n" /\ s[i + 1] = s[i] /\ s[i + 2] = s[i]

analyze_context(self, s) ==
  LET m0 == One
      m1 == IF HasRepeatedChars(s)
            THEN RMul(m0, self.context_multipliers.repeated_chars) ELSE m0
      m2 == IF Len(s) > 10 /\ isupper(s)
            THEN RMul(m1, self.context_multipliers.all_caps) ELSE m1
      m3 == IF count(s, "!") >= 2
            THEN RMul(m2, self.context_multipliers.multiple_exclamation) ELSE m2
  IN  m3

\* variant: the advice on insults comes before the advice on hate speech
generate_suggestions_insults_first(categories) ==
  LET has(c) == c \in Range(categories)
  IN  (IF has("insults")
       THEN <<"Try focusing on the issue rather than personal attacks">> ELSE <<>>)
      \o (IF has("hate_speech")
          THEN <<"Consider expressing disagreement without using hateful language">> ELSE <<>>)
      \o (IF has("aggressive")
          THEN <<"A calmer tone might lead to better communication">> ELSE <<>>)
      \o (IF has("derogatory")
          THEN <<"Respectful language helps maintain positive relationships">> ELSE <<>>)

generate_suggestions(categories) ==
  LET has(c) == c \in Range(categories)
  IN  (IF has("hate_speech")
       THEN <<"Consider expressing disagreement without using hateful language">> ELSE <<>>)
      \o (IF has("insults")
          THEN <<"Try focusing on the issue rather than personal attacks">> ELSE <<>>)
      \o (IF has("aggressive")
          THEN <<"A calmer tone might lead to better communication">> ELSE <<>>)
      \o (IF has("derogatory")
          THEN <<"Respectful language helps maintain positive relationships">> ELSE <<>>)

\* variant: the threshold itself does not count as toxic
is_toxic_above(found_keywords, adjusted) ==
  Len(found_keywords) > 0 /\ ~RLeq(adjusted, CONFIDENCE_THRESHOLD)

adjusted_severity(max_severity, context_score) == RMin(RMul(max_severity, context_score), One)

is_toxic(found_keywords, adjusted) ==
  Len(found_keywords) > 0 /\ RLeq(CONFIDENCE_THRESHOLD, adjusted)

\* the return statement of analyze on the non-blank path
Verdict(self, s, loc, seed) ==
  LET adjusted == adjusted_severity(loc.max_severity, analyze_context(self, s))
      toxic    == is_toxic(loc.found_keywords, adjusted)
  IN  [isToxic      |-> toxic,
       confidence   |-> adjusted,
       severity     |-> adjusted,
       keywords     |-> ListOfSet(loc.found_keywords, AllKeywords, seed),
       categories   |-> ListOfSet(loc.categories, CategoryNames, seed),
       suggestions  |-> IF toxic THEN generate_suggestions(loc.categories) ELSE <<>>,
       originalText |-> s]

\* the return statement of analyze on the blank path
BlankVerdict ==
  [isToxic |-> FALSE, confidence |-> Zero, severity |-> Zero,
   keywords |-> <<>>, categories |-> <<>>, suggestions |-> <<>>]

analyze(self, s, seed) ==
  IF IsBlank(s) THEN BlankVerdict
  ELSE Verdict(self, s, ScanPatterns(self, lower(s), 1, Len(self.toxic_patterns), InitialLocals),
               seed)

\* the list comprehension of batch_analyze, from element k on
RECURSIVE AnalyzeEach(_, _, _, _, _)
AnalyzeEach(self, texts, k, out, seed) ==
  IF k > Len(texts) THEN out
  ELSE AnalyzeEach(self, texts, k + 1, Append(out, analyze(self, texts[k], seed)), seed)

\* variant: blank texts are dropped from the batch
batch_analyze_nonblank(self, texts, seed) ==
  AnalyzeEach(self, SelectSeq(texts, LAMBDA t : ~IsBlank(t)), 1, <<>>, seed)

batch_analyze(self, texts, seed) == AnalyzeEach(self, texts, 1, <<>>, seed)

----------------------------------------------------------------------------
(* TextRephraser.__init__: the ordered phrase rules.  A pattern is the list *)
(* of the tokens of its regular expression: a literal character, "\\b"      *)
(* (word boundary) or "?" (the preceding character is optional, greedy).    *)
(* Every rule carries re.IGNORECASE.                                        *)

phrase_rules ==
  <<
    [pattern     |-> <<"\\b","y","o","u"," ","a","r","e"," ","s","t","u","p","i","d","\\b">>,
     replacement |-> <<"I"," ","d","i","s","a","g","r","e","e"," ","w","i","t","h"," ","y","o","u","r"," ","a","p","p","r","o","a","c","h">>],
    [pattern     |-> <<"\\b","y","o","u","'","?","r","e"," ","s","t","u","p","i","d","\\b">>,
     replacement |-> <<"I"," ","s","e","e"," ","t","h","i","n","g","s"," ","d","i","f","f","e","r","e","n","t","l","y">>],
    [pattern     |-> <<"\\b","s","h","u","t"," ","u","p","\\b">>,
     replacement |-> <<"I","'","d"," ","p","r","e","f","e","r"," ","i","f"," ","w","e"," ","c","o","u","l","d"," ","d","i","s","c","u","s","s"," ","t","h","i","s"," ","c","a","l","m","l","y">>],
    [pattern     |-> <<"\\b","y","o","u","'","?","r","e"," ","a","n","?"," ","i","d","i","o","t","\\b">>,
     replacement |-> <<"I"," ","t","h","i","n","k"," ","t","h","e","r","e"," ","m","i","g","h","t"," ","b","e"," ","a"," ","m","i","s","u","n","d","e","r","s","t","a","n","d","i","n","g">>],
    [pattern     |-> <<"\\b","y","o","u"," ","a","r","e"," ","a","n","?"," ","i","d","i","o","t","\\b">>,
     replacement |-> <<"I"," ","t","h","i","n","k"," ","t","h","e","r","e"," ","m","i","g","h","t"," ","b","e"," ","a"," ","m","i","s","u","n","d","e","r","s","t","a","n","d","i","n","g">>],
    [pattern     |-> <<"\\b","i"," ","h","a","t","e"," ","y","o","u","\\b">>,
     replacement |-> <<"I","'","m"," ","f","r","u","s","t","r","a","t","e","d"," ","w","i","t","h"," ","t","h","i","s"," ","s","i","t","u","a","t","i","o","n">>],
    [pattern     |-> <<"\\b","y","o","u","'","?","r","e"," ","d","u","m","b","\\b">>,
     replacement |-> <<"I"," ","b","e","l","i","e","v","e"," ","t","h","e","r","e","'","s"," ","a"," ","b","e","t","t","e","r"," ","w","a","y"," ","t","o"," ","t","h","i","n","k"," ","a","b","o","u","t"," ","t","h","i","s">>],
    [pattern     |-> <<"\\b","y","o","u"," ","a","r","e"," ","d","u","m","b","\\b">>,
     replacement |-> <<"I"," ","b","e","l","i","e","v","e"," ","t","h","e","r","e","'","s"," ","a"," ","b","e","t","t","e","r"," ","w","a","y"," ","t","o"," ","t","h","i","n","k"," ","a","b","o","u","t"," ","t","h","i","s">>],
    [pattern     |-> <<"\\b","y","o","u","'","?","r","e"," ","a"," ","l","o","s","e","r","\\b">>,
     replacement |-> <<"I","'","m"," ","d","i","s","a","p","p","o","i","n","t","e","d"," ","w","i","t","h"," ","h","o","w"," ","t","h","i","n","g","s"," ","t","u","r","n","e","d"," ","o","u","t">>],
    [pattern     |-> <<"\\b","y","o","u","'","?","r","e"," ","p","a","t","h","e","t","i","c","\\b">>,
     replacement |-> <<"I"," ","e","x","p","e","c","t","e","d"," ","b","e","t","t","e","r"," ","f","r","o","m"," ","t","h","i","s"," ","s","i","t","u","a","t","i","o","n">>],
    [pattern     |-> <<"\\b","y","o","u","'","?","r","e"," ","w","o","r","t","h","l","e","s","s","\\b">>,
     replacement |-> <<"I"," ","d","o","n","'","t"," ","t","h","i","n","k"," ","t","h","i","s"," ","i","s"," ","w","o","r","k","i","n","g"," ","o","u","t">>],
    [pattern     |-> <<"\\b","y","o","u","'","?","r","e"," ","u","s","e","l","e","s","s","\\b">>,
     replacement |-> <<"I"," ","t","h","i","n","k"," ","w","e"," ","n","e","e","d"," ","a"," ","d","i","f","f","e","r","e","n","t"," ","a","p","p","r","o","a","c","h">>],
    [pattern     |-> <<"\\b","t","h","a","t","'","?","s"," ","g","a","r","b","a","g","e","\\b">>,
     replacement |-> <<"I"," ","d","o","n","'","t"," ","t","h","i","n","k"," ","t","h","a","t","'","s"," ","t","h","e"," ","b","e","s","t"," ","s","o","l","u","t","i","o","n">>],
    [pattern     |-> <<"\\b","t","h","a","t","'","?","s"," ","t","r","a","s","h","\\b">>,
     replacement |-> <<"I"," ","b","e","l","i","e","v","e"," ","w","e"," ","c","a","n"," ","d","o"," ","b","e","t","t","e","r">>],
    [pattern     |-> <<"\\b","y","o","u","'","?","r","e"," ","d","i","s","g","u","s","t","i","n","g","\\b">>,
     replacement |-> <<"I","'","m"," ","u","n","c","o","m","f","o","r","t","a","b","l","e"," ","w","i","t","h"," ","t","h","i","s"," ","b","e","h","a","v","i","o","r">>],
    [pattern     |-> <<"\\b","m","o","r","o","n","\\b">>,
     replacement |-> <<"p","e","r","s","o","n"," ","w","i","t","h"," ","a"," ","d","i","f","f","e","r","e","n","t"," ","v","i","e","w","p","o","i","n","t">>],
    [pattern     |-> <<"\\b","s","t","u","p","i","d","\\b">>,
     replacement |-> <<"u","n","c","l","e","a","r">>],
    [pattern     |-> <<"\\b","i","d","i","o","t","\\b">>,
     replacement |-> <<"s","o","m","e","o","n","e"," ","I"," ","d","i","s","a","g","r","e","e"," ","w","i","t","h">>],
    [pattern     |-> <<"\\b","d","u","m","b","\\b">>,
     replacement |-> <<"n","o","t"," ","w","e","l","l"," ","t","h","o","u","g","h","t"," ","o","u","t">>],
    [pattern     |-> <<"\\b","h","a","t","e","\\b">>,
     replacement |-> <<"s","t","r","o","n","g","l","y"," ","d","i","s","l","i","k","e">>]
  >>

\* the instance TextRephraser() builds
TextRephraser == [phrase_rules |-> phrase_rules]

----------------------------------------------------------------------------
(* The re functions on these patterns *)

\* the characters \w matches
WordChars == UpperSet \cup LowerSet \cup Digits \cup {"_"}

IsWordChar(c) == c \in WordChars

\* s[i] exists and is a \w character
WordAt(s, i) == i >= 1 /\ i <= Len(s) /\ IsWordChar(s[i])

\* \b holds between s[i-1] and s[i]
Boundary(s, i) == WordAt(s, i - 1) # WordAt(s, i)

\* the positions of the optional characters of a pattern
Optionals(pat) == {k \in 1..(Len(pat) - 1) : pat[k + 1] = "?"}

\* one way to read a pattern, with the optional characters in taken present:
\* the literal to find and the offsets into it at which \b must hold
Reading(pat, taken) ==
  LET kept(k) == /\ pat[k] \notin {"\\b", "?"}
                 /\ (k \in Optionals(pat) => k \in taken)
      marked  == [k \in 1..Len(pat) |-> IF kept(k) THEN pat[k] ELSE ""]
  IN  [taken   |-> taken,
       literal |-> SelectSeq(marked, LAMBDA c : c # ""),
       bounds  |-> {Cardinality({j \in 1..(k - 1) : kept(j)}) :
                      k \in {x \in 1..Len(pat) : pat[x] = "\\b"}}]

\* every reading of a pattern
Readings(pat) == {Reading(pat, taken) : taken \in SUBSET Optionals(pat)}

\* a compiled pattern: its readings, and the characters a match can start
\* with, in either case
Compiled(pat) ==
  LET readings == Readings(pat)
  IN  [pattern  |-> pat,
       readings |-> readings,
       starts   |-> UNION {{r.literal[1], ToUpper(r.literal[1])} : r \in readings}]

\* the compiled patterns the re module keeps, by pattern
re_cache == {Compiled(phrase_rules[k].pattern) : k \in 1..Len(phrase_rules)}

\* re.compile(pattern, re.IGNORECASE)
compile(pat) ==
  IF \E e \in re_cache : e.pattern = pat
  THEN CHOOSE e \in re_cache : e.pattern = pat
  ELSE Compiled(pat)

\* a greedy '?' tries the reading with its character first: a is tried before b
TriedBefore(a, b) ==
  \/ a = b
  \/ LET differ == (a \ b) \cup (b \ a)
     IN  (CHOOSE k \in differ : \A j \in differ : k <= j) \in a

\* reading r matches s at position i, ignoring case
ReadingMatches(r, s, i) ==
  /\ i + Len(r.literal) - 1 <= Len(s)
  /\ \A n \in 1..Len(r.literal) : ToLower(s[i + n - 1]) = r.literal[n]
  /\ \A o \in r.bounds : Boundary(s, i + o)

\* match of a compiled pattern against s at position i: the position after
\* the match, or 0 when there is none
MatchAt(re, s, i) ==
  LET hits == {r \in re.readings : ReadingMatches(r, s, i)}
  IN  IF i > Len(s) \/ s[i] \notin re.starts \/ hits = {} THEN 0
      ELSE LET first == CHOOSE a \in hits : \A b \in hits : TriedBefore(a.taken, b.taken)
           IN  i + Len(first.literal)

\* re.search(pattern, s, re.IGNORECASE) is not None
search(pat, s) ==
  LET re == compile(pat) IN \E i \in 1..Len(s) : MatchAt(re, s, i) # 0

\* re.sub on a compiled pattern, from position i on: leftmost non-overlapping
\* matches, all replaced
RECURSIVE SubFrom(_, _, _, _)
SubFrom(re, replacement, s, i) ==
  LET starts == {j \in i..Len(s) : MatchAt(re, s, j) # 0}
  IN  IF starts = {} THEN SubSeq(s, i, Len(s))
      ELSE LET j == CHOOSE x \in starts : \A y \in starts : x <= y
           IN  SubSeq(s, i, j - 1) \o replacement
                 \o SubFrom(re, replacement, s, MatchAt(re, s, j))

\* re.sub(pattern, replacement, s, flags=re.IGNORECASE)
sub(pat, replacement, s) == SubFrom(compile(pat), replacement, s, 1)

\* variant: runs of '!' are kept
KeepRuns(s) == s

\* re.sub(r'!{2,}', '.', s): the first '!' of a run of two or more becomes
\* '.', the others of the run go
Collapse(s) ==
  LET bang(i)  == i >= 1 /\ i <= Len(s) /\ s[i] = "!"
      inRun(i) == bang(i) /\ (bang(i - 1) \/ bang(i + 1))
      marked   == [i \in 1..Len(s) |->
                     IF ~inRun(i) THEN s[i] ELSE IF bang(i - 1) THEN "" ELSE "."]
  IN  SelectSeq(marked, LAMBDA c : c # "")

\* re.match(r'^(you|this|that)\b', s, re.IGNORECASE) is not None
StrongOpeners == {<<"y","o","u">>, <<"t","h","i","s">>, <<"t","h","a","t">>}

StartsStrong(s) == \E w \in StrongOpeners : MatchAt(compile(w \o <<"\\b">>), s, 1) # 0

\* str.split(): the maximal runs of non-whitespace characters, in order
split(s) ==
  LET inWord(i) == i >= 1 /\ i <= Len(s) /\ s[i] \notin Whitespace
      index     == [i \in 1..Len(s) |-> i]
      starts    == SelectSeq(index, LAMBDA i : inWord(i) /\ ~inWord(i - 1))
      ends      == SelectSeq(index, LAMBDA i : inWord(i) /\ ~inWord(i + 1))
  IN  [n \in 1..Len(starts) |-> SubSeq(s, starts[n], ends[n])]

\* sep.join(xs)
RECURSIVE join(_, _)
join(sep, xs) ==
  IF xs = <<>> THEN <<>>
  ELSE IF Len(xs) = 1 THEN xs[1]
  ELSE xs[1] \o sep \o join(sep, Tail(xs))

----------------------------------------------------------------------------
(* TextRephraser *)

\* the keywords parameter: None (not supplied) or a list
None == [given |-> FALSE, list |-> <<>>]
List(xs) == [given |-> TRUE, list |-> xs]

\* truth value of the keywords parameter
Truthy(keywords) == keywords.given /\ keywords.list # <<>>

\* variant: a rule that fires does not record the modification
RECURSIVE ApplyRulesUnrecorded(_, _, _, _, _)
ApplyRulesUnrecorded(self, k, last, rephrased, modified) ==
  IF k > last THEN [rephrased |-> rephrased, modified |-> modified]
  ELSE LET rule == self.phrase_rules[k]
       IN  IF search(rule.pattern, rephrased)
           THEN ApplyRulesUnrecorded(self, k + 1, last,
                                     sub(rule.pattern, rule.replacement, rephrased), modified)
           ELSE ApplyRulesUnrecorded(self, k + 1, last, rephrased, modified)

\* variant: the rules are applied last to first
RECURSIVE ApplyRulesBackwards(_, _, _, _, _)
ApplyRulesBackwards(self, k, last, rephrased, modified) ==
  IF k > last THEN [rephrased |-> rephrased, modified |-> modified]
  ELSE LET rule == self.phrase_rules[last]
       IN  IF search(rule.pattern, rephrased)
           THEN ApplyRulesBackwards(self, k, last - 1,
                                    sub(rule.pattern, rule.replacement, rephrased), TRUE)
           ELSE ApplyRulesBackwards(self, k, last - 1, rephrased, modified)

\* the rule loop of rephrase, rules k..last
RECURSIVE ApplyRules(_, _, _, _, _)
ApplyRules(self, k, last, rephrased, modified) ==
  IF k > last THEN [rephrased |-> rephrased, modified |-> modified]
  ELSE LET rule == self.phrase_rules[k]
       IN  IF search(rule.pattern, rephrased)
           THEN ApplyRules(self, k + 1, last,
                           sub(rule.pattern, rule.replacement, rephrased), TRUE)
           ELSE ApplyRules(self, k + 1, last, rephrased, modified)

general_softening(s) ==
  LET s1 == Collapse(s)
      s2 == IF Len(s1) > 10 /\ isupper(s1) THEN capitalize(s1) ELSE s1
      s3 == IF StartsStrong(s2)
            THEN <<"P","e","r","h","a","p","s"," ">> \o <<ToLower(s2[1])>> \o Tail(s2)
            ELSE s2
  IN  s3

\* variant: the changed ratio is not doubled
confidence_undoubled(original, rephrased) ==
  IF original = rephrased THEN Zero
  ELSE LET original_words  == Range(split(lower(original)))
           rephrased_words == Range(split(lower(rephrased)))
           n == Cardinality(original_words)
       IN  RMin(Rat(Cardinality(original_words \ rephrased_words), IF n > 1 THEN n ELSE 1), One)

calculate_confidence(original, rephrased) ==
  IF original = rephrased THEN Zero
  ELSE LET original_words  == Range(split(lower(original)))
           rephrased_words == Range(split(lower(rephrased)))
           n == Cardinality(original_words)
           changed_ratio == Rat(Cardinality(original_words \ rephrased_words),
                                IF n > 1 THEN n ELSE 1)
       IN  RMin(RMul(changed_ratio, Rat(2, 1)), One)

\* variant: the fallback runs whenever no rule fired, keywords or not
SoftenWithoutKeywords(s, st, keywords) ==
  IF ~st.modified
  THEN LET softened == general_softening(s)
       IN  [rephrased |-> softened, modified |-> softened # s]
  ELSE st

\* variant: the fallback reports a modification whenever it runs
SoftenAlwaysModified(s, st, keywords) ==
  IF ~st.modified /\ Truthy(keywords)
  THEN [rephrased |-> general_softening(s), modified |-> TRUE]
  ELSE st

\* the fallback of rephrase after the rule loop
Soften(s, st, keywords) ==
  IF ~st.modified /\ Truthy(keywords)
  THEN LET softened == general_softening(s)
       IN  [rephrased |-> softened, modified |-> softened # s]
  ELSE st

\* variant: the blank path returns the stripped text
BlankResultStripped(s) ==
  [original |-> s, rephrased |-> <<>>, modified |-> FALSE, confidence |-> Zero]

\* the return statement of rephrase on the blank path
BlankResult(s) ==
  [original |-> s, rephrased |-> s, modified |-> FALSE, confidence |-> Zero]

rephrase(self, s, keywords) ==
  IF IsBlank(s)
  THEN BlankResult(s)
  ELSE LET st == Soften(s, ApplyRules(self, 1, Len(self.phrase_rules), s, FALSE), keywords)
       IN  [original   |-> s,
            rephrased  |-> st.rephrased,
            modified   |-> st.modified,
            confidence |-> calculate_confidence(s, st.rephrased),
            keywords   |-> IF Truthy(keywords) THEN keywords.list ELSE <<>>]

ReasonPrefix == <<"C","o","n","t","a","i","n","s"," ","p","o","t","e","n","t","i","a","l","l","y"," ","h","a","r","m","f","u","l"," ","l","a","n","g","u","a","g","e",":"," ">>

\* toxicity_info.get(key, [])
Get(info, key) == IF key \in DOMAIN info THEN info[key] ELSE <<>>

\* variant: the reason lists the keywords last to first
get_suggestion_reversed(self, s, toxicity_info) ==
  LET rephrase_result == rephrase(self, s, List(Get(toxicity_info, "keywords")))
  IN  [original   |-> s,
       rephrased  |-> rephrase_result.rephrased,
       reason     |-> ReasonPrefix \o join(<<","," ">>, Reverse(Get(toxicity_info, "keywords"))),
       confidence |-> rephrase_result.confidence,
       keywords   |-> Get(toxicity_info, "keywords"),
       categories |-> Get(toxicity_info, "categories")]

get_suggestion(self, s, toxicity_info) ==
  LET rephrase_result == rephrase(self, s, List(Get(toxicity_info, "keywords")))
  IN  [original   |-> s,
       rephrased  |-> rephrase_result.rephrased,
       reason     |-> ReasonPrefix \o join(<<","," ">>, Get(toxicity_info, "keywords")),
       confidence |-> rephrase_result.confidence,
       keywords   |-> Get(toxicity_info, "keywords"),
       categories |-> Get(toxicity_info, "categories")]

\* the list comprehension of batch_rephrase, from element k on
RECURSIVE RephraseEach(_, _, _, _)
RephraseEach(self, texts, k, out) ==
  IF k > Len(texts) THEN out
  ELSE RephraseEach(self, texts, k + 1, Append(out, rephrase(self, texts[k], None)))

batch_rephrase(self, texts) == RephraseEach(self, texts, 1, <<>>)

----------------------------------------------------------------------------
(* The clients' inputs *)

MaxPieces == 3
MaxLen == 15
MaxBatch == 2
NumCallers == 2

Vocabulary ==
  { <<"Y","O","U"," ","A","R","E"," ","S","T","U","P","I","D">>,
    <<"s","t","u","p","i","d">>,
    <<"h","a","t","e","f","u","l">>,
    <<"s","h","u","t"," ","u","p">>,
    <<"s","h","u","t">>,
    <<"u","p">>,
    <<"D","A","M","N">>,
    <<"!","!">>,
    <<"\n","\n","\n">>,
    <<"y","o","u">>,
    <<"d","u","m","b">> }

\* keywords arguments a client sends to /api/rephrase
KeywordArgs == {None, List(<<>>), List(<<<<"h","a","t","e">>, <<"s","t","u","p","i","d">>>>)}

\* texts of the concurrent callers
ConcTexts == {<<"s","t","u","p","i","d","!","!">>, <<"y","o","u"," ","D","A","M","N">>, <<" ">>}

NoResult == [none |-> TRUE]

\* a client types a piece; two words typed one after the other are separated by a space
Typed(s, p) ==
  IF s # <<>> /\ IsWordChar(s[Len(s)]) /\ IsWordChar(p[1]) THEN s \o <<" ">> \o p ELSE s \o p

\* the 'texts' field of a JSON body: an array of strings or a string
JsonArray(xs) == [isList |-> TRUE, value |-> xs]
JsonString(s) == [isList |-> FALSE, value |-> s]

Callers == 1..NumCallers

Idle == [pc |-> "idle", op |-> "none", text |-> <<>>, keywords |-> None, k |-> 0,
         result |-> NoResult]

NoLocals == [found_keywords |-> <<>>, categories |-> <<>>, max_severity |-> Zero,
             rephrased |-> <<>>, modified |-> FALSE]

\* variant: the locals live on the instance, one frame for all callers
FrameOfInstance(c) == 1

\* the frame holding the locals of caller c's call: every call has its own
FrameOf(c) == c

----------------------------------------------------------------------------
(* Process start: app.py builds the module-level instances *)

Init ==
  /\ hashSeed \in HashSeeds
  /\ toxicity_analyzer = ToxicityAnalyzer
  /\ text_rephraser = TextRephraser
  /\ text = <<>>
  /\ pieces = 0
  /\ pc = "input"
  /\ kwarg = None
  /\ verdict = NoResult
  /\ result = NoResult
  /\ result2 = NoResult
  /\ suggestion = NoResult
  /\ batch = JsonArray(<<>>)
  /\ response = NoResult
  /\ calls = [c \in Callers |-> Idle]
  /\ frames = [f \in Callers |-> NoLocals]

----------------------------------------------------------------------------
(* Single-text requests *)

Type(p) ==
  /\ pc = "input"
  /\ pieces < MaxPieces
  /\ Len(Typed(text, p)) <= MaxLen
  /\ text' = Typed(text, p)
  /\ pieces' = pieces + 1
  /\ UNCHANGED <<instances, pc, kwarg, verdict, result, result2, suggestion, batched, threads>>

\* app.check_toxicity
CheckToxicity ==
  /\ pc = "input"
  /\ verdict' = analyze(toxicity_analyzer, text, hashSeed)
  /\ pc' = "analyzed"
  /\ UNCHANGED <<instances, text, pieces, kwarg, result, result2, suggestion, batched, threads>>

\* TextRephraser.get_suggestion on the verdict of a previous analysis
GetSuggestion ==
  /\ pc = "analyzed"
  /\ suggestion' = get_suggestion(text_rephraser, text, verdict)
  /\ pc' = "suggested"
  /\ UNCHANGED <<instances, text, pieces, kwarg, verdict, result, result2, batched, threads>>

\* app.analyze_and_rephrase
AnalyzeAndRephrase ==
  /\ pc = "input"
  /\ LET toxicity_result == analyze(toxicity_analyzer, text, hashSeed)
     IN  /\ verdict' = toxicity_result
         /\ suggestion' = IF toxicity_result.isToxic
                          THEN get_suggestion(text_rephraser, text, toxicity_result)
                          ELSE None
  /\ pc' = "combined"
  /\ UNCHANGED <<instances, text, pieces, kwarg, result, result2, batched, threads>>

\* app.rephrase_text
RephraseText(keywords) ==
  /\ pc = "input"
  /\ kwarg' = keywords
  /\ result' = rephrase(text_rephraser, text, keywords)
  /\ pc' = "rephrased"
  /\ UNCHANGED <<instances, text, pieces, verdict, result2, suggestion, batched, threads>>

\* the client sends the rephrased text back to app.rephrase_text, same keywords
RephraseAgain ==
  /\ pc = "rephrased"
  /\ result2' = rephrase(text_rephraser, result.rephrased, kwarg)
  /\ pc' = "rephrased2"
  /\ UNCHANGED <<instances, text, pieces, kwarg, verdict, result, suggestion, batched, threads>>

Next ==
  \/ \E p \in Vocabulary : Type(p)
  \/ CheckToxicity
  \/ GetSuggestion
  \/ AnalyzeAndRephrase
  \/ \E keywords \in KeywordArgs : RephraseText(keywords)
  \/ RephraseAgain

Spec == Init /\ [][Next]_vars

----------------------------------------------------------------------------
(* Batch requests *)

AddText(p) ==
  /\ pc = "input"
  /\ batch.isList
  /\ Len(batch.value) < MaxBatch
  /\ batch' = JsonArray(Append(batch.value, p))
  /\ UNCHANGED <<instances, single, pc, response, threads>>

\* the client sends a string where the array is expected
SendString(p) ==
  /\ pc = "input"
  /\ batch = JsonArray(<<>>)
  /\ batch' = JsonString(p)
  /\ UNCHANGED <<instances, single, pc, response, threads>>

\* app.batch_analyze
BatchAnalyze ==
  /\ pc = "input"
  /\ response' = IF ~batch.isList
                 THEN [status |-> 400, error |-> "texts must be an array"]
                 ELSE [status |-> 200,
                       results |-> batch_analyze(toxicity_analyzer, batch.value, hashSeed)]
  /\ pc' = "analyzed"
  /\ UNCHANGED <<instances, single, batch, threads>>

\* TextRephraser.batch_rephrase on a list of texts
BatchRephrase ==
  /\ pc = "input"
  /\ batch.isList
  /\ response' = [results |-> batch_rephrase(text_rephraser, batch.value)]
  /\ pc' = "rephrased"
  /\ UNCHANGED <<instances, single, batch, threads>>

NextBatch ==
  \/ \E p \in Vocabulary : AddText(p)
  \/ \E p \in Vocabulary : SendString(p)
  \/ BatchAnalyze
  \/ BatchRephrase

SpecBatch == Init /\ [][NextBatch]_vars

----------------------------------------------------------------------------
(* Concurrent callers of the shared instances.  A call reads the instance   *)
(* tables and keeps everything it writes in its own frame.                  *)

Locals(c) == frames[FrameOf(c)]

\* analyze, up to the loops
CallAnalyze(c, s) ==
  /\ calls[c].pc = "idle"
  /\ IF IsBlank(s)
     THEN /\ calls' = [calls EXCEPT ![c] = [Idle EXCEPT !.pc = "done", !.op = "analyze",
                                                        !.text = s, !.result = BlankVerdict]]
          /\ UNCHANGED frames
     ELSE /\ calls' = [calls EXCEPT ![c] = [Idle EXCEPT !.pc = "scan", !.op = "analyze",
                                                        !.text = s, !.k = 1]]
          /\ frames' = [frames EXCEPT ![FrameOf(c)] =
                          [@ EXCEPT !.found_keywords = <<>>, !.categories = <<>>,
                                    !.max_severity = Zero]]
  /\ UNCHANGED <<instances, single, pc, batched>>

\* one iteration of the outer loop of analyze
ScanStep(c) ==
  /\ calls[c].pc = "scan"
  /\ calls[c].k <= Len(toxicity_analyzer.toxic_patterns)
  /\ LET loc == ScanPatterns(toxicity_analyzer, lower(calls[c].text), calls[c].k, calls[c].k,
                             [found_keywords |-> Locals(c).found_keywords,
                              categories     |-> Locals(c).categories,
                              max_severity   |-> Locals(c).max_severity])
     IN  frames' = [frames EXCEPT ![FrameOf(c)] =
                      [@ EXCEPT !.found_keywords = loc.found_keywords,
                                !.categories = loc.categories,
                                !.max_severity = loc.max_severity]]
  /\ calls' = [calls EXCEPT ![c].k = @ + 1]
  /\ UNCHANGED <<instances, single, pc, batched>>

\* analyze, after the loops
AnalyzeReturn(c) ==
  /\ calls[c].pc = "scan"
  /\ calls[c].k > Len(toxicity_analyzer.toxic_patterns)
  /\ calls' = [calls EXCEPT ![c].pc = "done",
                            ![c].result = Verdict(toxicity_analyzer, calls[c].text,
                                                  Locals(c), hashSeed)]
  /\ UNCHANGED <<instances, single, pc, batched, frames>>

\* rephrase, up to the rule loop
CallRephrase(c, s, keywords) ==
  /\ calls[c].pc = "idle"
  /\ IF IsBlank(s)
     THEN /\ calls' = [calls EXCEPT ![c] =
                         [Idle EXCEPT !.pc = "done", !.op = "rephrase", !.text = s,
                                      !.keywords = keywords,
                                      !.result = rephrase(text_rephraser, s, keywords)]]
          /\ UNCHANGED frames
     ELSE /\ calls' = [calls EXCEPT ![c] =
                         [Idle EXCEPT !.pc = "rules", !.op = "rephrase", !.text = s,
                                      !.keywords = keywords]]
          /\ frames' = [frames EXCEPT ![FrameOf(c)] =
                          [@ EXCEPT !.rephrased = s, !.modified = FALSE]]
  /\ UNCHANGED <<instances, single, pc, batched>>

\* the rule loop of rephrase
RuleLoop(c) ==
  /\ calls[c].pc = "rules"
  /\ LET st == ApplyRules(text_rephraser, 1, Len(text_rephraser.phrase_rules),
                          Locals(c).rephrased, Locals(c).modified)
     IN  frames' = [frames EXCEPT ![FrameOf(c)] =
                      [@ EXCEPT !.rephrased = st.rephrased, !.modified = st.modified]]
  /\ calls' = [calls EXCEPT ![c].pc = "fallback"]
  /\ UNCHANGED <<instances, single, pc, batched>>

\* rephrase, after the rule loop
RephraseReturn(c) ==
  /\ calls[c].pc = "fallback"
  /\ LET s  == calls[c].text
         st == Soften(s, [rephrased |-> Locals(c).rephrased, modified |-> Locals(c).modified],
                      calls[c].keywords)
     IN  calls' = [calls EXCEPT ![c].pc = "done",
                                ![c].result =
                                   [original   |-> s,
                                    rephrased  |-> st.rephrased,
                                    modified   |-> st.modified,
                                    confidence |-> calculate_confidence(s, st.rephrased),
                                    keywords   |-> IF Truthy(calls[c].keywords)
                                                   THEN calls[c].keywords.list ELSE <<>>]]
  /\ UNCHANGED <<instances, single, pc, batched, frames>>

NextConc ==
  \/ \E c \in Callers, s \in ConcTexts : CallAnalyze(c, s)
  \/ \E c \in Callers : ScanStep(c)
  \/ \E c \in Callers : AnalyzeReturn(c)
  \/ \E c \in Callers, s \in ConcTexts, keywords \in KeywordArgs : CallRephrase(c, s, keywords)
  \/ \E c \in Callers : RuleLoop(c)
  \/ \E c \in Callers : RephraseReturn(c)

SpecConc == Init /\ [][NextConc]_vars

----------------------------------------------------------------------------
(* Properties.  What the documentation says of a result is stated here from *)
(* its words, over the tables, and compared with what the handlers left in  *)
(* the state.                                                               *)

\* verdict holds the analysis of text
Analyzed == pc \in {"analyzed", "suggested", "combined"}

\* result holds the rephrasing of text with the keywords argument kwarg
Rephrased == pc \in {"rephrased", "rephrased2"}

\* the table keywords that occur in the lower-cased text
Matched(s) == LET low == lower(s) IN {kw \in Range(AllKeywords) : Contains(low, kw)}

\* the table entries one of whose keywords occurs in the lower-cased text
MatchedEntries(s) ==
  LET found == Matched(s)
  IN  {k \in 1..Len(toxic_patterns) : Range(toxic_patterns[k].keywords) \cap found # {}}

\* M: the greatest severity among the matched categories, 0 when none matched
MaxMatchedSeverity(s) ==
  LET sevs == {toxic_patterns[k].severity : k \in MatchedEntries(s)} \cup {Zero}
  IN  CHOOSE x \in sevs : \A y \in sevs : RLeq(y, x)

\* some character occurs 3 or more times consecutively
HasTriple(s) == \E i \in 1..(Len(s) - 2) : s[i + 1] = s[i] /\ s[i + 2] = s[i]

\* some character other than a newline occurs 3 or more times consecutively
HasTripleOnLine(s) ==
  \E i \in 1..(Len(s) - 2) : s[i] # "\n" /\ s[i + 1] = s[i] /\ s[i + 2] = s[i]

\* longer than 10 characters and entirely upper-case: it has a letter and no
\* lower-case letter
LongUpper(s) ==
  /\ Len(s) > 10
  /\ \E i \in 1..Len(s) : s[i] \in UpperSet
  /\ \A i \in 1..Len(s) : s[i] \notin LowerSet

\* 2 or more exclamation marks
Exclaims(s) == Cardinality({i \in 1..Len(s) : s[i] = "!"}) >= 2

Factor(holds, f) == IF holds THEN f ELSE One

\* min(M x C, 1.0) for the given reading of "some character occurs 3 or more
\* times consecutively"
Clamped(s, triple) ==
  LET C  == RMul(RMul(Factor(triple, Rat(12, 10)), Factor(LongUpper(s), Rat(13, 10))),
                 Factor(Exclaims(s), Rat(12, 10)))
      MC == RMul(MaxMatchedSeverity(s), C)
  IN  IF RLeq(MC, One) THEN MC ELSE One

InUnit(x) == RLeq(Zero, x) /\ RLeq(x, One)

\* C1: for every text that is empty or only whitespace, analyze returns
\* isToxic=false, confidence=0, severity=0, empty keywords, categories and
\* suggestions, and an originalText field equal to the text.
C1_BlankVerdictEchoesText ==
  (Analyzed /\ IsBlank(text)) =>
    /\ verdict.isToxic = FALSE
    /\ verdict.confidence = Zero
    /\ verdict.severity = Zero
    /\ verdict.keywords = <<>>
    /\ verdict.categories = <<>>
    /\ verdict.suggestions = <<>>
    /\ "originalText" \in DOMAIN verdict
    /\ verdict.originalText = text

\* C2: for every non-blank text, isToxic is true exactly when at least one
\* table keyword matched and the adjusted severity is at least 0.6.
C2_ToxicIffMatchedAndAtThreshold ==
  (Analyzed /\ ~IsBlank(text)) =>
    (verdict.isToxic <=> (Matched(text) # {} /\ RLeq(Rat(6, 10), verdict.severity)))

\* a matched text whose adjusted severity is exactly the threshold, and toxic
C2_AtThreshold ==
  /\ Analyzed /\ ~IsBlank(text)
  /\ Matched(text) # {}
  /\ verdict.severity = Rat(6, 10)
  /\ verdict.isToxic

\* What analyze computes, beside C3: for every non-blank text, confidence and
\* severity both equal min(M x C, 1.0), M the greatest matched severity and C
\* the product of 1.2 if some character other than a newline occurs 3 or more
\* times consecutively, 1.3 if the text is longer than 10 characters and
\* entirely upper-case, 1.2 if it has 2 or more exclamation marks.
SeverityIsClampedProductOnLines ==
  (Analyzed /\ ~IsBlank(text)) =>
    /\ verdict.confidence = Clamped(text, HasTripleOnLine(text))
    /\ verdict.severity = Clamped(text, HasTripleOnLine(text))
    /\ InUnit(verdict.confidence) /\ InUnit(verdict.severity)

\* C3: for every non-blank text, confidence and severity both equal
\* min(M x C, 1.0), M the greatest (not the sum) of the matched severities and
\* C the product of 1.2 if some character occurs 3 or more times
\* consecutively, 1.3 if the text is longer than 10 characters and entirely
\* upper-case, 1.2 if it has 2 or more exclamation marks; both lie in [0,1].
C3_SeverityIsClampedProduct ==
  (Analyzed /\ ~IsBlank(text)) =>
    /\ verdict.confidence = Clamped(text, HasTriple(text))
    /\ verdict.severity = Clamped(text, HasTriple(text))
    /\ InUnit(verdict.confidence) /\ InUnit(verdict.severity)

\* a matched text on which all three factors hold and the product is clamped
AllFactorsClamped ==
  /\ Analyzed /\ ~IsBlank(text)
  /\ Matched(text) # {}
  /\ HasTripleOnLine(text) /\ LongUpper(text) /\ Exclaims(text)
  /\ verdict.severity = One

\* some phrase rule fires on s: the first rule that matches s is applied to
\* s itself, and no rule is applied before one matches
SomeRuleFires(s) == \E k \in 1..Len(phrase_rules) : search(phrase_rules[k].pattern, s)

\* W(s): the set of lower-cased whitespace-separated words of s
W(s) == {lower(w) : w \in Range(split(s))}

\* the number of whitespace-separated words of s, repeated words counted each time
wordCount(s) == Len(split(s))

\* min(2 x changed / max(n, 1), 1.0)
TwiceRatio(changed, n) ==
  LET r == Rat(2 * changed, IF n > 1 THEN n ELSE 1)
  IN  IF RLeq(r, One) THEN r ELSE One

Positive(x) == ~RLeq(x, Zero)

\* C4: for every text that is empty or only whitespace, with or without a
\* keywords argument, rephrase returns original = rephrased = the text,
\* modified=false and confidence=0.0: no rule and no softening is applied.
C4_BlankTextIsReturned ==
  (Rephrased /\ IsBlank(text)) =>
    /\ result.original = text
    /\ result.rephrased = text
    /\ result.modified = FALSE
    /\ result.confidence = Zero

\* a whitespace-only text rephrased with a non-empty keywords argument
C4_BlankWithKeywords ==
  /\ pc = "rephrased"
  /\ text # <<>> /\ IsBlank(text)
  /\ Truthy(kwarg)
  /\ result.rephrased = text

\* C5, as stated: for every text on which at least one phrase rule fires,
\* rephrase returns modified=true and a confidence strictly greater than 0.
C5_RuleFiredPositiveConfidence ==
  (Rephrased /\ ~IsBlank(text) /\ SomeRuleFires(text)) =>
    (result.modified /\ Positive(result.confidence))

\* C5, as amended: for every text on which at least one phrase rule fires,
\* rephrase returns modified=true, and its confidence is strictly greater
\* than 0 exactly when some lower-cased word of the original text is not a
\* word of the rephrased text.
C5_RuleFiredModified ==
  (Rephrased /\ ~IsBlank(text) /\ SomeRuleFires(text)) =>
    /\ result.modified
    /\ Positive(result.confidence) <=> (W(text) \ W(result.rephrased) # {})

\* a rule fired and changed the text, and the confidence is 0
C5_RuleFiredZeroConfidence ==
  /\ pc = "rephrased"
  /\ SomeRuleFires(text)
  /\ result.modified /\ result.rephrased # text
  /\ result.confidence = Zero

\* C6, as stated: for every non-blank text, confidence is 0.0 when rephrased
\* equals original, and otherwise min(2 x |W(original) minus W(rephrased)| /
\* max(wordCount(original), 1), 1.0), repeated words counted each time.
C6_ConfidencePerWord ==
  (Rephrased /\ ~IsBlank(text)) =>
    result.confidence =
      IF result.rephrased = result.original THEN Zero
      ELSE TwiceRatio(Cardinality(W(result.original) \ W(result.rephrased)),
                      wordCount(result.original))

\* C6, as amended: the same with the number of distinct lower-cased words of
\* the original text, |W(original)|, in place of wordCount(original).
C6_ConfidencePerDistinctWord ==
  (Rephrased /\ ~IsBlank(text)) =>
    result.confidence =
      IF result.rephrased = result.original THEN Zero
      ELSE TwiceRatio(Cardinality(W(result.original) \ W(result.rephrased)),
                      Cardinality(W(result.original)))

\* a changed text with a repeated word, where the two counts differ
C6_RepeatedWordChanged ==
  /\ pc = "rephrased"
  /\ result.rephrased # result.original
  /\ wordCount(text) > Cardinality(W(text))
  /\ W(text) \ W(result.rephrased) # {}
  /\ W(text) \cap W(result.rephrased) # {}

\* s has a run of 2 or more exclamation marks
HasExclamationRun(s) == \E i \in 1..(Len(s) - 1) : s[i] = "!" /\ s[i + 1] = "!"

\* C7: rephrase is not idempotent: whenever a rule fired on a text that keeps
\* a run of exclamation marks and a non-empty keywords argument is given,
\* rephrasing the output again gives a different text, because the softening
\* step still matches the output of the first application.
C7_SecondApplicationDiffers ==
  (/\ pc = "rephrased2"
   /\ Truthy(kwarg)
   /\ SomeRuleFires(text)
   /\ HasExclamationRun(result.rephrased)) =>
    /\ result2.original = result.rephrased
    /\ result2.rephrased # result.rephrased

\* a text t and keywords with rephrase(rephrase(t).rephrased).rephrased
\* different from rephrase(t).rephrased
C7_NotIdempotent ==
  /\ pc = "rephrased2"
  /\ result.modified
  /\ result2.original = result.rephrased
  /\ result2.rephrased # result.rephrased

\* C8: for every list of texts [t1..tn], batch_analyze returns exactly n
\* verdicts, the i-th equal to analyze(ti): order is kept and no verdict
\* depends on another element of the batch.
C8_BatchIsElementwise ==
  (pc = "analyzed" /\ batch.isList) =>
    /\ response.status = 200
    /\ Len(response.results) = Len(batch.value)
    /\ \A i \in 1..Len(batch.value) :
         response.results[i] = analyze(toxicity_analyzer, batch.value[i], hashSeed)

\* a batch of a toxic text followed by a blank one, analysed
C8_MixedBatchAnalysed ==
  /\ pc = "analyzed" /\ batch.isList
  /\ Len(batch.value) = 2
  /\ ~IsBlank(batch.value[1]) /\ IsBlank(batch.value[2])
  /\ Len(response.results) = 2
  /\ response.results[1].isToxic /\ ~response.results[2].isToxic

\* every call a caller can make, with the result of the same call executed alone
AloneAnalyze ==
  {<<s, seed, analyze(ToxicityAnalyzer, s, seed)>> : s \in ConcTexts, seed \in HashSeeds}

AloneRephrase ==
  {<<s, keywords, rephrase(TextRephraser, s, keywords)>> :
     s \in ConcTexts, keywords \in KeywordArgs}

ReturnedAlone(c) ==
  \/ /\ calls[c].op = "analyze"
     /\ <<calls[c].text, hashSeed, calls[c].result>> \in AloneAnalyze
  \/ /\ calls[c].op = "rephrase"
     /\ <<calls[c].text, calls[c].keywords, calls[c].result>> \in AloneRephrase

SameCall(c, d) ==
  /\ calls[c].op = calls[d].op
  /\ calls[c].text = calls[d].text
  /\ calls[c].keywords = calls[d].keywords

\* C9: under every interleaving of concurrent callers of the shared
\* instances, each finished call has the result of the same call executed
\* alone, two calls with the same arguments have identical results, and the
\* keyword table, the multiplier table and the phrase rules never change.
C9_CallsAreIndependent ==
  /\ toxicity_analyzer = ToxicityAnalyzer
  /\ text_rephraser = TextRephraser
  /\ \A c \in Callers : calls[c].pc = "done" => ReturnedAlone(c)
  /\ \A c, d \in Callers :
       (calls[c].pc = "done" /\ calls[d].pc = "done" /\ SameCall(c, d)) =>
         calls[c].result = calls[d].result

\* two callers have finished an analysis and a rephrasing of one text, each
\* of which found something
C9_TwoCallsFinished ==
  \E c, d \in Callers :
    /\ c # d
    /\ calls[c].pc = "done" /\ calls[c].op = "analyze" /\ calls[c].result.isToxic
    /\ calls[d].pc = "done" /\ calls[d].op = "rephrase" /\ calls[d].result.modified
    /\ calls[c].text = calls[d].text

\* xs joined with ", "
CommaSeparated(xs) ==
  IF xs = <<>> THEN <<>>
  ELSE LET sep(n) == IF n = 1 THEN <<>> ELSE <<",", " ">>
           piece == [n \in 1..Len(xs) |-> sep(n) \o xs[n]]
           Cat[n \in 0..Len(xs)] == IF n = 0 THEN <<>> ELSE Cat[n - 1] \o piece[n]
       IN  Cat[Len(xs)]

\* the suggestion built from text and verdict
Suggested == pc = "suggested" \/ (pc = "combined" /\ verdict.isToxic)

\* C10: for every verdict, get_suggestion(text, verdict) has the reason
\* "Contains potentially harmful language: " followed by verdict.keywords
\* joined with ", " in the order supplied, the rephrased text and confidence
\* of rephrase(text, verdict.keywords), and verdict.keywords and
\* verdict.categories unchanged.
C10_SuggestionFromVerdict ==
  Suggested =>
    LET r == rephrase(text_rephraser, text, List(verdict.keywords))
    IN  /\ suggestion.reason =
             <<"C","o","n","t","a","i","n","s"," ","p","o","t","e","n","t","i","a","l","l","y",
               " ","h","a","r","m","f","u","l"," ","l","a","n","g","u","a","g","e",":"," ">>
               \o CommaSeparated(verdict.keywords)
        /\ suggestion.rephrased = r.rephrased
        /\ suggestion.confidence = r.confidence
        /\ suggestion.keywords = verdict.keywords
        /\ suggestion.categories = verdict.categories

\* a suggestion for a verdict of two keywords or more, with a rephrased text
C10_SeveralKeywords ==
  /\ pc = "suggested"
  /\ Len(verdict.keywords) >= 2
  /\ suggestion.keywords = verdict.keywords
  /\ suggestion.rephrased # text

\* C11: for every text, blank ones included, the result of rephrase has a
\* keywords field equal to the keywords argument supplied, or to the empty
\* list when none was supplied.
C11_KeywordsEchoed ==
  Rephrased =>
    /\ "keywords" \in DOMAIN result
    /\ result.keywords = IF kwarg.given THEN kwarg.list ELSE <<>>

\* What rephrase returns, beside C11: on every non-blank text the keywords
\* field is there and echoes the argument, the empty list when none was given.
KeywordsEchoedOnText ==
  (Rephrased /\ ~IsBlank(text)) =>
    /\ "keywords" \in DOMAIN result
    /\ result.keywords = IF kwarg.given THEN kwarg.list ELSE <<>>

\* the four advisory strings, in their fixed order, each with its category
Advisories ==
  << [category |-> "hate_speech",
      advice   |-> "Consider expressing disagreement without using hateful language"],
     [category |-> "insults",
      advice   |-> "Try focusing on the issue rather than personal attacks"],
     [category |-> "aggressive",
      advice   |-> "A calmer tone might lead to better communication"],
     [category |-> "derogatory",
      advice   |-> "Respectful language helps maintain positive relationships"] >>

\* the categories one of whose keywords occurs in the lower-cased text
MatchedCategories(s) == {toxic_patterns[k].category : k \in MatchedEntries(s)}

\* the advisory strings of the matched categories, in the fixed order
AdviceFor(s) ==
  LET cats == MatchedCategories(s)
      due  == SelectSeq(Advisories, LAMBDA a : a.category \in cats)
  IN  [n \in 1..Len(due) |-> due[n].advice]

\* C12: in every verdict, suggestions is empty whenever isToxic is false; when
\* isToxic is true it is the sub-sequence, in the order hate_speech, insults,
\* aggressive, derogatory, of the four advisory strings whose category was
\* matched, each at most once; so a toxic verdict that matched only profanity
\* and/or offensive has no suggestion.
C12_SuggestionsFollowCategories ==
  Analyzed =>
    /\ ~verdict.isToxic => verdict.suggestions = <<>>
    /\ verdict.isToxic => verdict.suggestions = AdviceFor(text)
    /\ (verdict.isToxic /\ MatchedCategories(text) \subseteq {"profanity", "offensive"})
         => verdict.suggestions = <<>>

\* a toxic verdict that matched hate_speech and insults and carries their two
\* advisory strings
C12_TwoAdvisories ==
  /\ Analyzed
  /\ verdict.isToxic
  /\ {"hate_speech", "insults"} \subseteq MatchedCategories(text)
  /\ Len(verdict.suggestions) = 2

\* the left-to-right fold of the phrase rules over s, as the texts it goes
\* through: each rule is tested on the output of the rules before it and, when
\* it matches, replaces all of its occurrences
\* what rules k, k + 1, ... do in turn when rule k is given cur: whether the
\* rule's pattern is found in its input, and the text it hands on
RECURSIVE RuleFoldFrom(_, _)
RuleFoldFrom(k, cur) ==
  IF k > Len(phrase_rules) THEN <<>>
  ELSE LET rule  == phrase_rules[k]
           found == search(rule.pattern, cur)
           out   == IF found THEN sub(rule.pattern, rule.replacement, cur) ELSE cur
       IN  <<[fired |-> found, text |-> out]>> \o RuleFoldFrom(k + 1, out)

\* RuleFold(s)[k].text is the text after the first k rules, and
\* RuleFold(s)[k].fired tells whether rule k fired on the text before it
RuleFold(s) ==
  LET steps == <<[fired |-> FALSE, text |-> s]>> \o RuleFoldFrom(1, s)
  IN  [k \in 0..Len(phrase_rules) |-> steps[k + 1]]

\* the phrases each rule stands for, in lower case
PhraseTable ==
  [k \in 1..Len(phrase_rules) |-> {r.literal : r \in compile(phrase_rules[k].pattern).readings}]

Phrases(k) == PhraseTable[k]

\* phrase w occurs in s at position i, whatever the case of the letters of s,
\* with no word character right before it or right after it
OccursAt(w, s, i) ==
  /\ i + Len(w) - 1 <= Len(s)
  /\ ToLower(s[i]) = w[1]
  /\ lower(SubSeq(s, i, i + Len(w) - 1)) = w
  /\ ~WordAt(s, i - 1)
  /\ ~WordAt(s, i + Len(w))

PhraseOccurs(k, s) ==
  LET low == lower(s) IN \E w \in Phrases(k) : \E i \in 1..Len(low) : OccursAt(w, low, i)

\* C13: for every non-blank text, the text the rule phase produces is the
\* left-to-right fold of the phrase rules in table order; each rule is tested
\* case-insensitively and only at word boundaries against the output of the
\* rules before it, so an earlier rule consumes its match before a later rule
\* can see it, and several rules may fire on one text.
C13_RulePhaseIsFold ==
  (pc = "rephrased" /\ ~IsBlank(text)) =>
    LET F     == RuleFold(text)
        fired == \E k \in 1..Len(phrase_rules) : F[k].fired
    IN  /\ \A k \in 1..Len(phrase_rules) :
             /\ F[k].fired <=> PhraseOccurs(k, F[k - 1].text)
             /\ ~F[k].fired => F[k].text = F[k - 1].text
        /\ fired => result.rephrased = F[Len(phrase_rules)].text
        /\ ~fired => F[Len(phrase_rules)].text = text

\* an upper-case text on which an earlier rule fired and consumed the word a
\* later rule would have matched
C13_EarlierRuleConsumes ==
  /\ pc = "rephrased"
  /\ \E i \in 1..Len(text) : text[i] \in UpperSet
  /\ LET F == RuleFold(text)
     IN  \E j, k \in 1..Len(phrase_rules) :
           /\ j < k
           /\ F[j].fired /\ ~F[k].fired
           /\ PhraseOccurs(k, text) /\ ~PhraseOccurs(k, F[k - 1].text)
           /\ result.rephrased = F[Len(phrase_rules)].text

\* every element of a batch_rephrase is rephrased with no keywords argument
BatchPassesNoKeywords ==
  \A s, t \in Vocabulary :
    batch_rephrase(TextRephraser, <<s, t>>)
      = <<rephrase(TextRephraser, s, None), rephrase(TextRephraser, t, None)>>

\* C14: the softening fallback runs exactly when no phrase rule fired and a
\* non-empty keywords argument was supplied, and it is computed from the
\* original text; when a rule fired the result is the output of the rules,
\* not softened; when no rule fired and keywords is absent or empty, as in
\* every batch_rephrase element, rephrased is the original text, modified is
\* false and confidence is 0.0.
C14_FallbackOnlyWithKeywords ==
  /\ BatchPassesNoKeywords
  /\ (pc = "rephrased" /\ ~IsBlank(text)) =>
       LET F        == RuleFold(text)
           fired    == \E k \in 1..Len(phrase_rules) : F[k].fired
           softened == general_softening(text)
       IN  /\ fired => result.rephrased = F[Len(phrase_rules)].text
           /\ (~fired /\ Truthy(kwarg)) =>
                /\ result.rephrased = softened
                /\ result.modified = (softened # text)
           /\ (~fired /\ ~Truthy(kwarg)) =>
                /\ result.rephrased = text
                /\ result.modified = FALSE
                /\ result.confidence = Zero

\* no rule fired, keywords were supplied, and the fallback changed the text
C14_FallbackApplied ==
  /\ pc = "rephrased"
  /\ ~SomeRuleFires(text)
  /\ Truthy(kwarg)
  /\ result.modified
  /\ result.rephrased = general_softening(text)
  /\ result.rephrased # text

\* the fallback ran on an upper-case text of more than ten characters
SoftenedLongUpper ==
  /\ Rephrased
  /\ ~IsBlank(text)
  /\ ~SomeRuleFires(text)
  /\ Truthy(kwarg)
  /\ LongUpper(text)

\* C15: whenever the softening fallback is applied to a text that is longer
\* than 10 characters and entirely upper-case, no letter after the first
\* character of the rephrased text is upper-case, also when the text holds
\* runs of exclamation marks that the fallback collapses into a period.
C15_LongUpperBecomesSentenceCase ==
  SoftenedLongUpper =>
    \A i \in 2..Len(result.rephrased) : result.rephrased[i] \notin UpperSet

\* the same, for the texts that are still longer than ten characters once
\* their runs of exclamation marks are collapsed
C15_SentenceCaseWhenStillLong ==
  (SoftenedLongUpper /\ Len(Collapse(text)) > 10) =>
    \A i \in 2..Len(result.rephrased) : result.rephrased[i] \notin UpperSet

\* keyword kw occurs as a substring of the lower-cased text
OccursIn(kw, s) ==
  \E i \in 1..Len(s) :
    /\ i + Len(kw) - 1 <= Len(s)
    /\ ToLower(s[i]) = kw[1]
    /\ lower(SubSeq(s, i, i + Len(kw) - 1)) = kw

\* the table keywords occurring in the text, and the categories owning one
Occurring(s) == {kw \in Range(AllKeywords) : OccursIn(kw, s)}
OwningCategories(s) ==
  LET occurring == Occurring(s)
  IN  {toxic_patterns[k].category :
         k \in {j \in 1..Len(toxic_patterns) :
                  Range(toxic_patterns[j].keywords) \cap occurring # {}}}

\* the places of the text where a keyword of category cat occurs
CategoryHits(cat, s) ==
  {<<kw, i>> \in Range(AllKeywords) \X (1..Len(s)) :
     /\ \E j \in 1..Len(toxic_patterns) :
          toxic_patterns[j].category = cat /\ kw \in Range(toxic_patterns[j].keywords)
     /\ i + Len(kw) - 1 <= Len(s)
     /\ lower(SubSeq(s, i, i + Len(kw) - 1)) = kw}

\* C16: for every non-blank text the verdict's keywords are exactly the table
\* keywords that occur as a substring of the lower-cased text, its categories
\* are exactly the categories owning such a keyword, and each keyword and
\* each category is listed exactly once.
C16_KeywordsAndCategoriesOnce ==
  (Analyzed /\ ~IsBlank(text)) =>
    LET occurring == Occurring(text)
        owning    == OwningCategories(text)
    IN  /\ Range(verdict.keywords) = occurring
        /\ Len(verdict.keywords) = Cardinality(occurring)
        /\ Range(verdict.categories) = owning
        /\ Len(verdict.categories) = Cardinality(owning)

\* 'hate' is reported for a text whose only occurrence of it is inside
\* 'hateful', and a category matched in several places is listed once
C16_SubstringAndRepeats ==
  /\ Analyzed
  /\ <<"h","a","t","e">> \in Range(verdict.keywords)
  /\ \A i \in 1..Len(text) : ~OccursAt(<<"h","a","t","e">>, text, i)
  /\ \E cat \in Range(verdict.categories) :
       /\ Cardinality(CategoryHits(cat, text)) >= 2
       /\ Cardinality({n \in 1..Len(verdict.categories) : verdict.categories[n] = cat}) = 1

\* modified tells whether rephrased differs from original
ModifiedIffDiffers(r) == r.modified <=> (r.rephrased # r.original)

\* C17: in every result of rephrase, on the blank-text path, the rule path
\* and the fallback path alike, modified is true if and only if rephrased
\* differs from original; a rule that fires changes the text, and no later
\* rule or step restores the original text.
C17_ModifiedIffChanged ==
  /\ pc = "rephrased" =>
       /\ result.original = text
       /\ ModifiedIffDiffers(result)
       /\ LET F == RuleFold(text)
          IN  /\ \A k \in 1..Len(phrase_rules) :
                   F[k].fired => F[k].text # F[k - 1].text
              /\ (\E k \in 1..Len(phrase_rules) : F[k].fired)
                   => (F[Len(phrase_rules)].text # text /\ result.rephrased # text)
  /\ pc = "rephrased2" =>
       /\ result2.original = result.rephrased
       /\ ModifiedIffDiffers(result2)

\* a rule rewrote the text, and the fallback then ran on the rewritten text
\* and left it as it was
C17_RulePathThenUnchangedFallback ==
  /\ pc = "rephrased2"
  /\ SomeRuleFires(text)
  /\ result.modified
  /\ result.rephrased # result.original
  /\ ~SomeRuleFires(result.rephrased)
  /\ Truthy(kwarg)
  /\ ~result2.modified
  /\ result2.rephrased = general_softening(result.rephrased)
  /\ result2.rephrased = result2.original

====
